---- MODULE Spec2Model ----
(***************************************************************************)
(* Multigenerational LRU helpers of include/linux/mm_inline.h:             *)
(* page->flags as a bit-packed word, the generation lists and their sizes, *)
(* the classic lru lists, and the lock-free usage counter.                 *)
(***************************************************************************)
EXTENDS Integers, Sequences, FiniteSets, TLC

(* ---------------------------------------------------------------- bounds *)

\* Largest max_seq an initial state draws.
MaxSeq == 4

\* thp_nr_pages() of the compound page.
CompoundNr == 2

\* page_inc_usage() calls started on one page in SpecInc.
MaxIncCalls == 6

\* Largest argument handed to lru_tier_from_usage() in SpecTier.
MaxUsageArg == 63

\* page_inc_usage() calls started on the page in SpecLive.
MaxLiveCalls == 2

(* ------------------------------------------- constants of the kernel headers *)

\* mmzone.h: number of generations of the sliding window.
MAX_NR_GENS == 4

\* mmzone.h: number of zones of a node.
MAX_NR_ZONES == 2

\* page-flags-layout.h: width of the usage counter in page->flags.
LRU_USAGE_WIDTH == 2

\* page-flags.h: enum pageflags, the bits this file reads or writes.
PG_locked == 0
PG_referenced == 1
PG_dirty == 2
PG_active == 3
PG_workingset == 4
PG_swapcache == 5
PG_writeback == 6
PG_reclaim == 7
PG_swapbacked == 8
PG_unevictable == 9
NR_PAGEFLAGS == 10

\* mmzone.h: enum lru_list.
LRU_INACTIVE_ANON == 0
LRU_ACTIVE_ANON == 1
LRU_INACTIVE_FILE == 2
LRU_ACTIVE_FILE == 3
LRU_UNEVICTABLE == 4
LRU_ACTIVE == 1
LRU_FILE == 2

\* unsigned long.
BITS_PER_LONG == 64

(* ------------------------------------------------------------- bit words *)

BIT(n) == 2 ^ n

RECURSIVE ilog2(_)
\* log2.h: floor of the base 2 logarithm.
ilog2(n) == IF n <= 1 THEN 0 ELSE 1 + ilog2(n \div 2)

\* log2.h: the (rounded up) base 2 order of n; order_base_2(0) = 0.
order_base_2(n) == IF n > 1 THEN ilog2(n - 1) + 1 ELSE 0

LRU_GEN_WIDTH == order_base_2(MAX_NR_GENS + 1)
LRU_USAGE_PGOFF == NR_PAGEFLAGS
LRU_GEN_PGOFF == LRU_USAGE_PGOFF + LRU_USAGE_WIDTH

\* The modelled part of the flags word: page flags, usage counter, generation.
FLAGS_BITS == LRU_GEN_PGOFF + LRU_GEN_WIDTH
FLAGS_ALL == BIT(FLAGS_BITS) - 1

\* a & b, bit by bit from the lowest.
and_bits[a \in Nat, b \in Nat] ==
  IF a = 0 \/ b = 0 THEN 0
  ELSE (a % 2) * (b % 2) + 2 * and_bits[a \div 2, b \div 2]

BitAnd(a, b) == and_bits[a, b]

\* a | b, bit by bit from the lowest.
or_bits[a \in Nat, b \in Nat] ==
  IF a = 0 THEN b
  ELSE IF b = 0 THEN a
  ELSE (IF a % 2 = 1 \/ b % 2 = 1 THEN 1 ELSE 0) + 2 * or_bits[a \div 2, b \div 2]

BitOr(a, b) == or_bits[a, b]

BitNot(a) == FLAGS_ALL - a

min(a, b) == IF a < b THEN a ELSE b

LRU_GEN_MASK == (BIT(LRU_GEN_WIDTH) - 1) * BIT(LRU_GEN_PGOFF)
LRU_USAGE_MASK == (BIT(LRU_USAGE_WIDTH) - 1) * BIT(LRU_USAGE_PGOFF)
LRU_TIER_FLAGS == BitOr(BIT(PG_referenced), BIT(PG_workingset))

test_bit(nr, w) == BitAnd(w, BIT(nr)) # 0

PageReferenced(w) == test_bit(PG_referenced, w)
PageDirty(w) == test_bit(PG_dirty, w)
PageActive(w) == test_bit(PG_active, w)
PageWorkingset(w) == test_bit(PG_workingset, w)
PageWriteback(w) == test_bit(PG_writeback, w)
PageReclaim(w) == test_bit(PG_reclaim, w)
PageSwapBacked(w) == test_bit(PG_swapbacked, w)
PageUnevictable(w) == test_bit(PG_unevictable, w)
PageSwapCache(w) == PageSwapBacked(w) /\ test_bit(PG_swapcache, w)

(* ----------------------------------------------------------- pure helpers *)

page_is_file_lru(w) == IF PageSwapBacked(w) THEN 0 ELSE 1

\* A page_lru() that forgets PG_active.
page_lru_no_active(w) ==
  IF PageUnevictable(w) THEN LRU_UNEVICTABLE
  ELSE (IF page_is_file_lru(w) = 1 THEN LRU_INACTIVE_FILE ELSE LRU_INACTIVE_ANON)

page_lru(w) ==
  IF PageUnevictable(w) THEN LRU_UNEVICTABLE
  ELSE (IF page_is_file_lru(w) = 1 THEN LRU_INACTIVE_FILE ELSE LRU_INACTIVE_ANON)
       + (IF PageActive(w) THEN LRU_ACTIVE ELSE 0)

RECURSIVE Pow2Mod(_, _)
\* 2^k mod m, without leaving the machine integers.
Pow2Mod(k, m) == IF k = 0 THEN 1 % m ELSE (2 * Pow2Mod(k - 1, m)) % m

\* An unsigned long seq, possibly wrapped below zero (max_seq - 1 at max_seq = 0).
lru_gen_from_seq(seq) ==
  IF seq >= 0 THEN seq % MAX_NR_GENS
  ELSE (Pow2Mod(BITS_PER_LONG, MAX_NR_GENS) + (seq % MAX_NR_GENS)) % MAX_NR_GENS

\* lru_tier_from_usage() without the + 1.
lru_tier_from_usage_no_inc(usage) == order_base_2(usage)

lru_tier_from_usage(usage) == order_base_2(usage + 1)

page_lru_gen(w) == (BitAnd(w, LRU_GEN_MASK) \div BIT(LRU_GEN_PGOFF)) - 1

page_tier_usage(w) ==
  IF BitAnd(w, BIT(PG_workingset)) # 0
  THEN (BitAnd(w, LRU_USAGE_MASK) \div BIT(LRU_USAGE_PGOFF)) + 1
  ELSE 0

(* ------------------------------------------------------------------ state *)

Pages == {"p1", "p2"}
NoPage == "none"
Threads == {"t1", "t2"}

Gens == 0 .. (MAX_NR_GENS - 1)
Types == 0 .. 1
Zones == 0 .. (MAX_NR_ZONES - 1)
Lrus == LRU_INACTIVE_ANON .. LRU_UNEVICTABLE

VARIABLES
  flags,          \* page->flags of every page
  page_zone,      \* page_zonenum(page)
  max_seq,        \* lruvec->evictable.max_seq
  min_seq,        \* lruvec->evictable.min_seq[file]
  enabled,        \* lruvec->evictable.enabled[file]
  static_key,     \* lru_gen_static_key, read by lru_gen_enabled()
  sizes,          \* lruvec->evictable.sizes[gen][file][zone]
  gen_lists,      \* lruvec->evictable.lists[gen][file][zone], head first
  lists,          \* lruvec->lists[lru], head first
  lru_size,       \* what update_lru_size() has added up, per lru and zone
  lk,             \* the caller holding lruvec->lru_lock: its position and locals
  th,             \* the callers of page_inc_usage(): position and locals
  bug,            \* the VM_BUG_ONs that have fired
  snap,           \* history: sizes and lists when the last addition started
  flags0,         \* history: page->flags of the initial state
  ninc,           \* history: page_inc_usage() calls started per page
  last_del,       \* history: the page and generation of the deletion just before
  usage_arg,      \* SpecTier: the argument of lru_tier_from_usage()
  tier_ret        \* SpecTier: what lru_tier_from_usage() returned, -1 before the call

vars == <<flags, page_zone, max_seq, min_seq, enabled, static_key, sizes, gen_lists,
          lists, lru_size, lk, th, bug, snap, flags0, ninc, last_del, usage_arg,
          tier_ret>>

lruvars == <<sizes, gen_lists, lists, lru_size>>
cfgvars == <<page_zone, max_seq, min_seq, enabled, static_key>>
tiervars == <<usage_arg, tier_ret>>

\* thp_nr_pages(): p2 is a compound page, p1 a base page.
thp_nr_pages(p) == IF p = "p2" THEN CompoundNr ELSE 1

InSeq(p, s) == \E i \in 1 .. Len(s) : s[i] = p

OnGenList(p, g, f, z) == InSeq(p, gen_lists[g][f][z])
OnClassicList(p, l) == InSeq(p, lists[l])
OnAnyList(p) ==
  \/ \E g \in Gens, f \in Types, z \in Zones : OnGenList(p, g, f, z)
  \/ \E l \in Lrus : OnClassicList(p, l)

list_add(p, head) == <<p>> \o head
list_add_tail(p, head) == Append(head, p)
\* list_del() unlinks the entry from its neighbours, whichever list they form.
list_del(p, head) == SelectSeq(head, LAMBDA q : q # p)

(* ------------------------------------------------------- locked operations *)

\* update_lru_size() that only ever adds.
update_lru_size_no_dec(ls, lru, zid, nr_pages) ==
  IF nr_pages < 0 THEN ls ELSE [ls EXCEPT ![lru][zid] = @ + nr_pages]

update_lru_size(ls, lru, zid, nr_pages) ==
  [ls EXCEPT ![lru][zid] = @ + nr_pages]

\* lru_gen_is_active() that takes only the youngest generation for active.
lru_gen_is_active_youngest(gen) == gen = lru_gen_from_seq(max_seq)

lru_gen_is_active(gen) ==
  gen = lru_gen_from_seq(max_seq) \/ gen = lru_gen_from_seq(max_seq - 1)

\* lru_gen_is_active() that asserts only the range of gen.
lru_gen_is_active_bugs_gen_only(gen) ==
  IF gen >= MAX_NR_GENS THEN {"is_active: gen >= MAX_NR_GENS"} ELSE {}

\* The VM_BUG_ONs of lru_gen_is_active().
lru_gen_is_active_bugs(gen) ==
  (IF max_seq = 0 THEN {"is_active: !max_seq"} ELSE {})
  \cup (IF gen >= MAX_NR_GENS THEN {"is_active: gen >= MAX_NR_GENS"} ELSE {})

\* lru_gen_update_size() that never subtracts from the old generation's counter.
lru_gen_update_size_no_sub(p, old_gen, new_gen) ==
  LET file == page_is_file_lru(flags[p])
      zone == page_zone[p]
      delta == thp_nr_pages(p)
      lru == LRU_FILE * file
      gen == IF old_gen < 0 THEN new_gen ELSE old_gen
  IN  [sizes |-> IF new_gen >= 0
                 THEN [sizes EXCEPT ![new_gen][file][zone] = @ + delta] ELSE sizes,
       lru_size |-> update_lru_size(lru_size,
                      lru + (IF lru_gen_is_active(gen) THEN LRU_ACTIVE ELSE 0),
                      zone, IF old_gen < 0 THEN delta ELSE 0 - delta),
       bug |-> lru_gen_is_active_bugs(gen)]

\* The new sizes, lru sizes and fired VM_BUG_ONs.
lru_gen_update_size(p, old_gen, new_gen) ==
  LET file == page_is_file_lru(flags[p])
      zone == page_zone[p]
      delta == thp_nr_pages(p)
      lru == LRU_FILE * file
      asserts ==
        (IF old_gen # -1 /\ old_gen >= MAX_NR_GENS THEN {"update_size: old_gen"} ELSE {})
        \cup (IF new_gen # -1 /\ new_gen >= MAX_NR_GENS THEN {"update_size: new_gen"} ELSE {})
        \cup (IF old_gen = -1 /\ new_gen = -1 THEN {"update_size: both -1"} ELSE {})
      s1 == IF old_gen >= 0
            THEN [sizes EXCEPT ![old_gen][file][zone] = @ - delta] ELSE sizes
      s2 == IF new_gen >= 0
            THEN [s1 EXCEPT ![new_gen][file][zone] = @ + delta] ELSE s1
  IN  IF old_gen < 0
      THEN [sizes |-> s2,
            lru_size |-> update_lru_size(lru_size,
                           lru + (IF lru_gen_is_active(new_gen) THEN LRU_ACTIVE ELSE 0),
                           zone, delta),
            bug |-> asserts \cup lru_gen_is_active_bugs(new_gen)]
      ELSE IF new_gen < 0
      THEN [sizes |-> s2,
            lru_size |-> update_lru_size(lru_size,
                           lru + (IF lru_gen_is_active(old_gen) THEN LRU_ACTIVE ELSE 0),
                           zone, 0 - delta),
            bug |-> asserts \cup lru_gen_is_active_bugs(old_gen)]
      ELSE [sizes |-> s2,
            lru_size |->
              IF ~lru_gen_is_active(old_gen) /\ lru_gen_is_active(new_gen)
              THEN update_lru_size(update_lru_size(lru_size, lru, zone, 0 - delta),
                                   lru + LRU_ACTIVE, zone, delta)
              ELSE lru_size,
            bug |-> asserts \cup lru_gen_is_active_bugs(old_gen)
                    \cup lru_gen_is_active_bugs(new_gen)
                    \cup (IF lru_gen_is_active(old_gen) /\ ~lru_gen_is_active(new_gen)
                          THEN {"update_size: active to inactive"} ELSE {})]

\* lru_gen_addition() that sends a page that cannot be evicted at once to the oldest
\* generation.
lru_gen_addition_gen_oldest(w) ==
  IF PageActive(w)
  THEN lru_gen_from_seq(max_seq)
  ELSE lru_gen_from_seq(min_seq[page_is_file_lru(w)])

\* lru_gen_addition() that skips one generation more for a page that cannot be
\* evicted at once.
lru_gen_addition_gen_third(w) ==
  LET file == page_is_file_lru(w)
  IN  IF PageActive(w)
      THEN lru_gen_from_seq(max_seq)
      ELSE IF \/ (file = 0 /\ ~PageSwapCache(w))
              \/ (PageReclaim(w) /\ (PageDirty(w) \/ PageWriteback(w)))
              \/ (~PageReferenced(w) /\ PageWorkingset(w))
      THEN lru_gen_from_seq(min_seq[file] + 2)
      ELSE lru_gen_from_seq(min_seq[file])

\* lru_gen_addition() that does not look at PG_active.
lru_gen_addition_gen_ignore_active(w) ==
  LET file == page_is_file_lru(w)
  IN  IF \/ (file = 0 /\ ~PageSwapCache(w))
         \/ (PageReclaim(w) /\ (PageDirty(w) \/ PageWriteback(w)))
         \/ (~PageReferenced(w) /\ PageWorkingset(w))
      THEN lru_gen_from_seq(min_seq[file] + 1)
      ELSE lru_gen_from_seq(min_seq[file])

\* lru_gen_addition(): the generation a page with flags w is added to.
lru_gen_addition_gen(w) ==
  LET file == page_is_file_lru(w)
  IN  IF PageActive(w)
      THEN lru_gen_from_seq(max_seq)
      ELSE IF \/ (file = 0 /\ ~PageSwapCache(w))
              \/ (PageReclaim(w) /\ (PageDirty(w) \/ PageWriteback(w)))
              \/ (~PageReferenced(w) /\ PageWorkingset(w))
      THEN lru_gen_from_seq(min_seq[file] + 1)
      ELSE lru_gen_from_seq(min_seq[file])

\* lru_gen_addition() that stores gen, not gen + 1, in page->flags.
lru_gen_addition_flags_off_by_one(old_flags, gen) ==
  LET new_flags == BitOr(BitAnd(old_flags, BitNot(BitOr(LRU_GEN_MASK, BIT(PG_active)))),
                         gen * BIT(LRU_GEN_PGOFF))
  IN  IF BitAnd(old_flags, BIT(PG_referenced)) = 0
      THEN BitAnd(new_flags, BitNot(BitOr(LRU_USAGE_MASK, LRU_TIER_FLAGS)))
      ELSE new_flags

\* lru_gen_addition() that leaves PG_active in page->flags.
lru_gen_addition_flags_keep_active(old_flags, gen) ==
  LET new_flags == BitOr(BitAnd(old_flags, BitNot(LRU_GEN_MASK)),
                         (gen + 1) * BIT(LRU_GEN_PGOFF))
  IN  IF BitAnd(old_flags, BIT(PG_referenced)) = 0
      THEN BitAnd(new_flags, BitNot(BitOr(LRU_USAGE_MASK, LRU_TIER_FLAGS)))
      ELSE new_flags

\* lru_gen_addition() that clears the usage of every page it adds.
lru_gen_addition_flags_clear_all(old_flags, gen) ==
  LET new_flags == BitOr(BitAnd(old_flags, BitNot(BitOr(LRU_GEN_MASK, BIT(PG_active)))),
                         (gen + 1) * BIT(LRU_GEN_PGOFF))
  IN  BitAnd(new_flags, BitNot(BitOr(LRU_USAGE_MASK, BIT(PG_workingset))))

\* lru_gen_addition(): new_flags of one turn of its cmpxchg loop.
lru_gen_addition_flags(old_flags, gen) ==
  LET new_flags == BitOr(BitAnd(old_flags, BitNot(BitOr(LRU_GEN_MASK, BIT(PG_active)))),
                         (gen + 1) * BIT(LRU_GEN_PGOFF))
  IN  IF BitAnd(old_flags, BIT(PG_referenced)) = 0
      THEN BitAnd(new_flags, BitNot(BitOr(LRU_USAGE_MASK, LRU_TIER_FLAGS)))
      ELSE new_flags

\* lru_gen_deletion() that takes the generation field of page->flags for gen.
lru_gen_deletion_gen_no_dec(old_flags) ==
  BitAnd(old_flags, LRU_GEN_MASK) \div BIT(LRU_GEN_PGOFF)

\* lru_gen_deletion(): gen of one turn of its cmpxchg loop.
lru_gen_deletion_gen(old_flags) ==
  (BitAnd(old_flags, LRU_GEN_MASK) \div BIT(LRU_GEN_PGOFF)) - 1

\* lru_gen_deletion() that leaves the generation in page->flags.
lru_gen_deletion_flags_keep_gen(old_flags) ==
  IF lru_gen_is_active(lru_gen_deletion_gen(old_flags))
  THEN BitOr(old_flags, BIT(PG_active)) ELSE old_flags

\* lru_gen_deletion() that never sets PG_active.
lru_gen_deletion_flags_no_active(old_flags) ==
  BitAnd(old_flags, BitNot(LRU_GEN_MASK))

\* lru_gen_deletion(): new_flags of one turn of its cmpxchg loop.
lru_gen_deletion_flags(old_flags) ==
  LET gen == lru_gen_deletion_gen(old_flags)
      new_flags == BitAnd(old_flags, BitNot(LRU_GEN_MASK))
  IN  IF lru_gen_is_active(gen) THEN BitOr(new_flags, BIT(PG_active)) ELSE new_flags

\* page_inc_usage() that does not saturate the usage counter.
page_inc_usage_flags_no_min(old_flags) ==
  IF BitAnd(old_flags, BIT(PG_workingset)) = 0
  THEN BitOr(old_flags, BIT(PG_workingset))
  ELSE old_flags + BIT(LRU_USAGE_PGOFF)

\* page_inc_usage(): new_flags of one turn of its cmpxchg loop.
page_inc_usage_flags(old_flags) ==
  IF BitAnd(old_flags, BIT(PG_workingset)) = 0
  THEN BitOr(old_flags, BIT(PG_workingset))
  ELSE BitOr(BitAnd(old_flags, BitNot(LRU_USAGE_MASK)),
             min(LRU_USAGE_MASK, BitAnd(old_flags, LRU_USAGE_MASK) + BIT(LRU_USAGE_PGOFF)))

(* --------------------------------------------------- the lru_lock holder *)

LkIdle == [pc |-> "idle", op |-> "none", page |-> NoPage, front |-> FALSE,
           gen |-> -1, seen |-> 0, old |-> 0, ret |-> FALSE]

SnapNone == [stage |-> "none", page |-> NoPage, sizes |-> <<>>, gen_lists |-> <<>>]

\* page_lru(): VM_BUG_ON_PAGE(PageActive(page) && PageUnevictable(page)).
page_lru_bugs(w) ==
  IF PageActive(w) /\ PageUnevictable(w) THEN {"page_lru: active and unevictable"} ELSE {}

\* No deletion came just before.
DelNone == [page |-> NoPage, gen |-> -1]

\* add_page_to_lru_list() (front) and add_page_to_lru_list_tail(): page_lru(), then
\* lru_gen_addition() up to its cmpxchg loop; when that returns false, the classic list.
AddCall(p, front) ==
  /\ lk.pc = "idle" /\ bug = {}
  /\ ~OnAnyList(p)
  /\ LET w == flags[p]
         lru == page_lru(w)
         file == page_is_file_lru(w)
     IN  IF PageUnevictable(w) \/ ~enabled[file]
         THEN /\ lru_size' = update_lru_size(lru_size, lru, page_zone[p], thp_nr_pages(p))
              /\ lists' = [lists EXCEPT ![lru] =
                             IF front THEN list_add(p, @) ELSE list_add_tail(p, @)]
              /\ lk' = [LkIdle EXCEPT !.pc = "ret", !.op = "add", !.page = p,
                                      !.front = front, !.seen = w, !.ret = FALSE]
              /\ snap' = SnapNone
              /\ bug' = bug \cup page_lru_bugs(w)
         ELSE /\ lk' = [LkIdle EXCEPT !.pc = "add_read", !.op = "add", !.page = p,
                                      !.front = front, !.seen = w,
                                      !.gen = lru_gen_addition_gen(w)]
              /\ snap' = [stage |-> "adding", page |-> p, sizes |-> sizes,
                          gen_lists |-> gen_lists]
              /\ bug' = bug \cup page_lru_bugs(w)
              /\ UNCHANGED <<lru_size, lists>>
  /\ last_del' = IF last_del.page = p THEN last_del ELSE DelNone
  /\ UNCHANGED <<flags, sizes, gen_lists, th, flags0, ninc>>
  /\ UNCHANGED cfgvars /\ UNCHANGED tiervars

\* lru_gen_addition(): old_flags = READ_ONCE(page->flags).
AddRead ==
  /\ lk.pc = "add_read" /\ bug = {}
  /\ lk' = [lk EXCEPT !.pc = "add_cas", !.old = flags[lk.page]]
  /\ bug' = bug \cup (IF BitAnd(flags[lk.page], LRU_GEN_MASK) # 0
                      THEN {"addition: page has a generation"} ELSE {})
  /\ UNCHANGED <<flags, snap, th, flags0, last_del, ninc>>
  /\ UNCHANGED lruvars /\ UNCHANGED cfgvars /\ UNCHANGED tiervars

\* lru_gen_addition() that stores new_flags without comparing.
AddCas_plain_store ==
  /\ lk.pc = "add_cas" /\ bug = {}
  /\ flags' = [flags EXCEPT ![lk.page] = lru_gen_addition_flags(lk.old, lk.gen)]
  /\ lk' = [lk EXCEPT !.pc = "add_link"]
  /\ UNCHANGED <<snap, th, bug, flags0, last_del, ninc>>
  /\ UNCHANGED lruvars /\ UNCHANGED cfgvars /\ UNCHANGED tiervars

\* lru_gen_addition() whose loop goes on while the cmpxchg succeeds.
AddCas_inverted ==
  /\ lk.pc = "add_cas" /\ bug = {}
  /\ IF flags[lk.page] = lk.old
     THEN /\ flags' = [flags EXCEPT ![lk.page] = lru_gen_addition_flags(lk.old, lk.gen)]
          /\ lk' = [lk EXCEPT !.pc = "add_read"]
     ELSE /\ lk' = [lk EXCEPT !.pc = "add_link"]
          /\ UNCHANGED flags
  /\ UNCHANGED <<snap, th, bug, flags0, last_del, ninc>>
  /\ UNCHANGED lruvars /\ UNCHANGED cfgvars /\ UNCHANGED tiervars

\* lru_gen_addition(): cmpxchg(&page->flags, old_flags, new_flags).
AddCas ==
  /\ lk.pc = "add_cas" /\ bug = {}
  /\ IF flags[lk.page] = lk.old
     THEN /\ flags' = [flags EXCEPT ![lk.page] = lru_gen_addition_flags(lk.old, lk.gen)]
          /\ lk' = [lk EXCEPT !.pc = "add_link"]
     ELSE /\ lk' = [lk EXCEPT !.pc = "add_read"]
          /\ UNCHANGED flags
  /\ UNCHANGED <<snap, th, bug, flags0, last_del, ninc>>
  /\ UNCHANGED lruvars /\ UNCHANGED cfgvars /\ UNCHANGED tiervars

\* lru_gen_addition(): lru_gen_update_size(page, lruvec, -1, gen), list_add or
\* list_add_tail, return true.
AddLink ==
  /\ lk.pc = "add_link" /\ bug = {}
  /\ LET p == lk.page
         gen == lk.gen
         file == page_is_file_lru(lk.seen)
         zone == page_zone[p]
         upd == lru_gen_update_size(p, -1, gen)
     IN  /\ sizes' = upd.sizes
         /\ lru_size' = upd.lru_size
         /\ bug' = bug \cup upd.bug
         /\ gen_lists' = [gen_lists EXCEPT ![gen][file][zone] =
                            IF lk.front THEN list_add(p, @) ELSE list_add_tail(p, @)]
  /\ lk' = [lk EXCEPT !.pc = "ret", !.ret = TRUE]
  /\ snap' = [snap EXCEPT !.stage = "added"]
  /\ UNCHANGED <<flags, lists, th, flags0, last_del, ninc>>
  /\ UNCHANGED cfgvars /\ UNCHANGED tiervars

\* del_page_from_lru_list(): the call; the page is on a list (PageLRU).
DelCall(p) ==
  /\ lk.pc = "idle" /\ bug = {}
  /\ OnAnyList(p)
  /\ lk' = [LkIdle EXCEPT !.pc = "del_read", !.op = "del", !.page = p]
  /\ snap' = IF snap.stage = "added" /\ snap.page = p
             THEN [snap EXCEPT !.stage = "removing"] ELSE SnapNone
  /\ last_del' = DelNone
  /\ UNCHANGED <<flags, th, bug, flags0, ninc>>
  /\ UNCHANGED lruvars /\ UNCHANGED cfgvars /\ UNCHANGED tiervars

\* lru_gen_deletion(): old_flags = READ_ONCE(page->flags); with no generation it
\* returns false and del_page_from_lru_list() takes the page off its classic list.
DelRead ==
  /\ lk.pc = "del_read" /\ bug = {}
  /\ LET p == lk.page
         w == flags[p]
     IN  IF BitAnd(w, LRU_GEN_MASK) = 0
         THEN /\ lists' = [l \in Lrus |-> list_del(p, lists[l])]
              /\ gen_lists' = [g \in Gens |-> [f \in Types |-> [z \in Zones |->
                                 list_del(p, gen_lists[g][f][z])]]]
              /\ lru_size' = update_lru_size(lru_size, page_lru(w), page_zone[p],
                                             0 - thp_nr_pages(p))
              /\ lk' = [lk EXCEPT !.pc = "ret", !.old = w, !.ret = FALSE]
              /\ snap' = SnapNone
              /\ bug' = bug \cup page_lru_bugs(w)
         ELSE /\ lk' = [lk EXCEPT !.pc = "del_cas", !.old = w,
                                  !.gen = lru_gen_deletion_gen(w)]
              /\ bug' = bug
                        \cup (IF PageActive(w) THEN {"deletion: PageActive"} ELSE {})
                        \cup (IF PageUnevictable(w) THEN {"deletion: PageUnevictable"} ELSE {})
                        \cup lru_gen_is_active_bugs(lru_gen_deletion_gen(w))
              /\ UNCHANGED <<lists, gen_lists, lru_size, snap>>
  /\ UNCHANGED <<flags, sizes, th, flags0, last_del, ninc>>
  /\ UNCHANGED cfgvars /\ UNCHANGED tiervars

\* lru_gen_deletion(): cmpxchg(&page->flags, old_flags, new_flags).
DelCas ==
  /\ lk.pc = "del_cas" /\ bug = {}
  /\ IF flags[lk.page] = lk.old
     THEN /\ flags' = [flags EXCEPT ![lk.page] = lru_gen_deletion_flags(lk.old)]
          /\ lk' = [lk EXCEPT !.pc = "del_unlink"]
     ELSE /\ lk' = [lk EXCEPT !.pc = "del_read"]
          /\ UNCHANGED flags
  /\ UNCHANGED <<snap, th, bug, flags0, last_del, ninc>>
  /\ UNCHANGED lruvars /\ UNCHANGED cfgvars /\ UNCHANGED tiervars

\* lru_gen_deletion(): lru_gen_update_size(page, lruvec, gen, -1), list_del, return true.
DelUnlink ==
  /\ lk.pc = "del_unlink" /\ bug = {}
  /\ LET p == lk.page
         upd == lru_gen_update_size(p, lk.gen, -1)
     IN  /\ sizes' = upd.sizes
         /\ lru_size' = upd.lru_size
         /\ bug' = bug \cup upd.bug
         /\ gen_lists' = [g \in Gens |-> [f \in Types |-> [z \in Zones |->
                            list_del(p, gen_lists[g][f][z])]]]
         /\ lists' = [l \in Lrus |-> list_del(p, lists[l])]
  /\ lk' = [lk EXCEPT !.pc = "ret", !.ret = TRUE]
  /\ snap' = IF snap.stage = "removing" THEN [snap EXCEPT !.stage = "removed"] ELSE snap
  /\ last_del' = [page |-> lk.page, gen |-> lk.gen]
  /\ UNCHANGED <<flags, th, flags0, ninc>>
  /\ UNCHANGED cfgvars /\ UNCHANGED tiervars

\* A return that also ages the lruvec.
Return_inc_max_seq ==
  /\ lk.pc = "ret" /\ bug = {}
  /\ lk' = LkIdle
  /\ max_seq' = max_seq + 1
  /\ UNCHANGED <<flags, snap, th, bug, flags0, last_del, ninc>>
  /\ UNCHANGED <<page_zone, min_seq, enabled, static_key>>
  /\ UNCHANGED lruvars /\ UNCHANGED tiervars

\* The operation returns to its caller.
Return ==
  /\ lk.pc = "ret" /\ bug = {}
  /\ lk' = LkIdle
  /\ UNCHANGED <<flags, snap, th, bug, flags0, last_del, ninc>>
  /\ UNCHANGED lruvars /\ UNCHANGED cfgvars /\ UNCHANGED tiervars

(* ------------------------------------------------------- page_inc_usage() *)

ThIdle == [pc |-> "idle", page |-> NoPage, old |-> 0, ret |-> FALSE]

\* page_inc_usage(): the call; with the static key off it returns PageActive(page).
IncEnter(t, p) ==
  /\ th[t].pc = "idle" /\ bug = {}
  /\ th' = [th EXCEPT ![t] =
              IF static_key
              THEN [ThIdle EXCEPT !.pc = "inc_read", !.page = p]
              ELSE [ThIdle EXCEPT !.pc = "inc_ret", !.page = p, !.ret = PageActive(flags[p])]]
  /\ UNCHANGED <<flags, lk, bug, snap, flags0, last_del>>
  /\ UNCHANGED lruvars /\ UNCHANGED cfgvars /\ UNCHANGED tiervars

\* Any number of calls.
IncCall(t, p) == IncEnter(t, p) /\ UNCHANGED ninc

\* At most MaxIncCalls calls on a page, counted.
IncCallCounted(t, p) ==
  /\ ninc[p] < MaxIncCalls
  /\ IncEnter(t, p)
  /\ ninc' = [ninc EXCEPT ![p] = @ + 1]

\* page_inc_usage(): old_flags = READ_ONCE(page->flags); break when nothing changes.
IncRead(t) ==
  /\ th[t].pc = "inc_read" /\ bug = {}
  /\ LET w == flags[th[t].page]
     IN  th' = [th EXCEPT ![t] =
                  IF w = page_inc_usage_flags(w)
                  THEN [@ EXCEPT !.pc = "inc_ret", !.old = w, !.ret = TRUE]
                  ELSE [@ EXCEPT !.pc = "inc_cas", !.old = w]]
  /\ UNCHANGED <<flags, lk, bug, snap, flags0, last_del, ninc>>
  /\ UNCHANGED lruvars /\ UNCHANGED cfgvars /\ UNCHANGED tiervars

\* page_inc_usage() that stores new_flags without comparing.
IncCas_plain_store(t) ==
  /\ th[t].pc = "inc_cas" /\ bug = {}
  /\ flags' = [flags EXCEPT ![th[t].page] = page_inc_usage_flags(th[t].old)]
  /\ th' = [th EXCEPT ![t] = [@ EXCEPT !.pc = "inc_ret", !.ret = TRUE]]
  /\ UNCHANGED <<lk, bug, snap, flags0, last_del, ninc>>
  /\ UNCHANGED lruvars /\ UNCHANGED cfgvars /\ UNCHANGED tiervars

\* page_inc_usage(): cmpxchg(&page->flags, old_flags, new_flags).
IncCas(t) ==
  /\ th[t].pc = "inc_cas" /\ bug = {}
  /\ IF flags[th[t].page] = th[t].old
     THEN /\ flags' = [flags EXCEPT ![th[t].page] = page_inc_usage_flags(th[t].old)]
          /\ th' = [th EXCEPT ![t] = [@ EXCEPT !.pc = "inc_ret", !.ret = TRUE]]
     ELSE /\ th' = [th EXCEPT ![t] = [@ EXCEPT !.pc = "inc_read"]]
          /\ UNCHANGED flags
  /\ UNCHANGED <<lk, bug, snap, flags0, last_del, ninc>>
  /\ UNCHANGED lruvars /\ UNCHANGED cfgvars /\ UNCHANGED tiervars

\* page_inc_usage() returns to its caller.
IncReturn(t) ==
  /\ th[t].pc = "inc_ret" /\ bug = {}
  /\ th' = [th EXCEPT ![t] = ThIdle]
  /\ UNCHANGED <<flags, lk, bug, snap, flags0, last_del, ninc>>
  /\ UNCHANGED lruvars /\ UNCHANGED cfgvars /\ UNCHANGED tiervars

(* ------------------------------------------------------ lru_tier_from_usage *)

\* A caller computes the tier of usage_arg.
TierCall ==
  /\ tier_ret = -1
  /\ tier_ret' = lru_tier_from_usage(usage_arg)
  /\ UNCHANGED <<flags, lk, th, bug, snap, flags0, last_del, ninc, usage_arg>>
  /\ UNCHANGED lruvars /\ UNCHANGED cfgvars

(* ---------------------------------------------------------- initial states *)

RECURSIVE SumBits(_)
SumBits(S) ==
  IF S = {} THEN 0
  ELSE LET b == CHOOSE x \in S : TRUE IN BIT(b) + SumBits(S \ {b})

\* A page that is on no list: no generation, not both active and unevictable, in the
\* swap cache only when swap backed, a usage count only once PG_workingset is set.
ValidInitWord(w) ==
  /\ BitAnd(w, LRU_GEN_MASK) = 0
  /\ ~(PageActive(w) /\ PageUnevictable(w))
  /\ test_bit(PG_swapcache, w) => PageSwapBacked(w)
  /\ BitAnd(w, LRU_USAGE_MASK) # 0 => PageWorkingset(w)

InitWords(bits, usages) ==
  { w \in { SumBits(S) + u * BIT(LRU_USAGE_PGOFF) : S \in SUBSET bits, u \in usages } :
      ValidInitWord(w) }

\* The windows with max_seq in maxs: each type's holds at most MAX_NR_GENS
\* generations.  lru_gen_is_active() asserts that max_seq is not 0; only SpecFresh
\* starts there.
SeqConfigs(maxs) ==
  { c \in [max_seq : maxs, min_seq : [Types -> 0 .. MaxSeq]] :
      \A f \in Types : c.min_seq[f] <= c.max_seq /\ c.max_seq - c.min_seq[f] < MAX_NR_GENS }

InitWith(words1, words2, zones2, seqs, enables, keys, usages) ==
  /\ flags \in { f \in [Pages -> words1 \cup words2] : f["p1"] \in words1 /\ f["p2"] \in words2 }
  /\ flags0 = flags
  /\ page_zone \in { z \in [Pages -> Zones] : z["p1"] = 0 /\ z["p2"] \in zones2 }
  /\ \E c \in seqs : max_seq = c.max_seq /\ min_seq = c.min_seq
  /\ enabled \in enables
  /\ static_key \in keys
  /\ sizes = [g \in Gens |-> [f \in Types |-> [z \in Zones |-> 0]]]
  /\ gen_lists = [g \in Gens |-> [f \in Types |-> [z \in Zones |-> <<>>]]]
  /\ lists = [l \in Lrus |-> <<>>]
  /\ lru_size = [l \in Lrus |-> [z \in Zones |-> 0]]
  /\ lk = LkIdle
  /\ th = [t \in Threads |-> ThIdle]
  /\ bug = {}
  /\ snap = SnapNone
  /\ ninc = [p \in Pages |-> 0]
  /\ last_del = DelNone
  /\ usage_arg \in usages
  /\ tier_ret = -1

AllEnabled == [f \in Types |-> TRUE]

\* The lru_lock holder's next step, on the pages of P.
LockNext(P) ==
  \/ \E p \in P, front \in BOOLEAN : AddCall(p, front)
  \/ AddRead
  \/ AddCas
  \/ AddLink
  \/ \E p \in P : DelCall(p)
  \/ DelRead
  \/ DelCas
  \/ DelUnlink
  \/ Return

(* Spec: additions and deletions of the pages under the lru_lock. *)
Init ==
  InitWith(InitWords({PG_active, PG_swapbacked}, {0}),
           InitWords({PG_active, PG_swapbacked, PG_unevictable}, {0}),
           Zones,
           SeqConfigs({MaxSeq}),
           {AllEnabled, [AllEnabled EXCEPT ![0] = FALSE]},
           {TRUE},
           {0})

Next == LockNext(Pages)

Spec == Init /\ [][Next]_vars

(* SpecConc: additions and deletions of one page under the lru_lock, with
   page_inc_usage() running beside them on the same page. *)
InitConc ==
  InitWith(InitWords({PG_referenced, PG_active, PG_swapbacked}, {0}),
           {0},
           {0},
           { c \in SeqConfigs({MaxSeq}) : c.min_seq[0] = c.min_seq[1] },
           {AllEnabled},
           {TRUE},
           {0})

NextConc ==
  \/ LockNext({"p1"})
  \/ IncCall("t1", "p1")
  \/ IncRead("t1")
  \/ IncCas("t1")
  \/ IncReturn("t1")

SpecConc == InitConc /\ [][NextConc]_vars

(* SpecAdd: additions and deletions of one page, over every kind of page and window. *)
InitAdd ==
  InitWith(InitWords({PG_referenced, PG_dirty, PG_active, PG_workingset, PG_swapcache,
                      PG_writeback, PG_reclaim, PG_swapbacked, PG_unevictable}, {0}),
           {0},
           {0},
           SeqConfigs(1 .. MaxSeq),
           {AllEnabled},
           {TRUE},
           {0})

NextAdd == LockNext({"p1"})

SpecAdd == InitAdd /\ [][NextAdd]_vars

(* SpecInc: two callers of page_inc_usage() racing on one page's flags. *)
InitInc ==
  InitWith(InitWords({PG_locked, PG_referenced, PG_workingset}, 0 .. (BIT(LRU_USAGE_WIDTH) - 1)),
           {0},
           {0},
           { c \in SeqConfigs({1}) : c.min_seq[0] = 1 /\ c.min_seq[1] = 1 },
           {AllEnabled},
           BOOLEAN,
           {0})

NextInc ==
  \/ \E t \in Threads : IncCallCounted(t, "p1")
  \/ \E t \in Threads : IncRead(t)
  \/ \E t \in Threads : IncCas(t)
  \/ \E t \in Threads : IncReturn(t)

SpecInc == InitInc /\ [][NextInc]_vars

(* SpecTier: lru_tier_from_usage() over a range of arguments. *)
InitTier ==
  InitWith({0}, {0}, {0}, { c \in SeqConfigs({1}) : c.min_seq[0] = 1 /\ c.min_seq[1] = 1 },
           {AllEnabled}, {TRUE}, 0 .. MaxUsageArg)

NextTier == TierCall

SpecTier == InitTier /\ [][NextTier]_vars

(* SpecFresh: additions and deletions of one file page in an lruvec whose max_seq
   and min_seq are equal, from 0 on. *)
InitFresh ==
  InitWith(InitWords({PG_referenced, PG_dirty, PG_active, PG_workingset}, {0}),
           {0},
           {0},
           { c \in SeqConfigs(0 .. MaxSeq) : \A f \in Types : c.min_seq[f] = c.max_seq },
           {AllEnabled},
           {TRUE},
           {0})

NextFresh == LockNext({"p1"})

SpecFresh == InitFresh /\ [][NextFresh]_vars

(* SpecExt: additions and deletions of one page under the lru_lock and
   page_inc_usage() on it, while other owners of page->flags set and clear bits
   that belong to neither. *)
ExtBits == {PG_referenced}

\* set_bit() or clear_bit() of bit b of page->flags by another owner of the word.
ExtToggle(p, b) ==
  /\ bug = {}
  /\ flags' = [flags EXCEPT ![p] = IF test_bit(b, @) THEN @ - BIT(b) ELSE @ + BIT(b)]
  /\ UNCHANGED <<lk, th, bug, snap, flags0, last_del, ninc>>
  /\ UNCHANGED lruvars /\ UNCHANGED cfgvars /\ UNCHANGED tiervars

InitExt ==
  InitWith(InitWords({PG_active}, {0}),
           {0},
           {0},
           { c \in SeqConfigs({MaxSeq}) : \A f \in Types : c.min_seq[f] = MaxSeq - 1 },
           {AllEnabled},
           {TRUE},
           {0})

NextExt ==
  \/ LockNext({"p1"})
  \/ IncCall("t1", "p1")
  \/ IncRead("t1")
  \/ IncCas("t1")
  \/ IncReturn("t1")
  \/ \E b \in ExtBits : ExtToggle("p1", b)

SpecExt == InitExt /\ [][NextExt]_vars

(* SpecLive: a finite number of calls on one page's flags: one addition, then one
   deletion, and at most MaxLiveCalls calls of page_inc_usage() from two callers;
   every caller that is inside a call keeps running. *)
InitLive ==
  InitWith(InitWords({PG_active}, {0}),
           {0},
           {0},
           { c \in SeqConfigs({MaxSeq}) : \A f \in Types : c.min_seq[f] = MaxSeq - 1 },
           {AllEnabled},
           {TRUE},
           {0})

\* The one addition.
LiveAddCall == snap.stage = "none" /\ \E front \in BOOLEAN : AddCall("p1", front)

\* The one deletion, of the page the addition linked.
LiveDelCall == snap.stage = "added" /\ DelCall("p1")

\* One of the MaxLiveCalls calls of page_inc_usage().
LiveIncCall(t) == ninc["p1"] < MaxLiveCalls /\ IncCallCounted(t, "p1")

\* The steps of the lru_lock holder inside a call.
LiveLockStep ==
  AddRead \/ AddCas \/ AddLink \/ DelRead \/ DelCas \/ DelUnlink \/ Return

\* The steps of caller t of page_inc_usage() inside a call.
LiveIncStep(t) == IncRead(t) \/ IncCas(t) \/ IncReturn(t)

NextLive ==
  \/ LiveAddCall
  \/ LiveDelCall
  \/ LiveLockStep
  \/ \E t \in Threads : LiveIncCall(t)
  \/ \E t \in Threads : LiveIncStep(t)

SpecLive ==
  /\ InitLive /\ [][NextLive]_vars
  /\ WF_vars(LiveLockStep)
  /\ \A t \in Threads : WF_vars(LiveIncStep(t))

(* ------------------------------------------------------------- the claims *)

\* No operation under the lru_lock is under way.
LockFree == lk.pc = "idle" \/ lk.pc = "ret"

RECURSIVE ListNr(_)
\* The base pages of the pages linked in a list.
ListNr(s) == IF s = <<>> THEN 0 ELSE thp_nr_pages(Head(s)) + ListNr(Tail(s))

RECURSIVE SizesUpTo(_, _, _)
\* sizes[0][f][z] + ... + sizes[g][f][z].
SizesUpTo(g, f, z) == IF g < 0 THEN 0 ELSE sizes[g][f][z] + SizesUpTo(g - 1, f, z)

RECURSIVE SetNr(_)
SetNr(S) ==
  IF S = {} THEN 0
  ELSE LET q == CHOOSE x \in S : TRUE IN thp_nr_pages(q) + SetNr(S \ {q})

\* The pages that carry a generation, of one type and zone.
Tracked(f, z) ==
  { q \in Pages : /\ page_lru_gen(flags[q]) >= 0
                  /\ page_is_file_lru(flags[q]) = f
                  /\ page_zone[q] = z }

\* C1 as stated: every sizes[gen][type][zone] is the NUMBER of pages linked in that
\* slot, compound pages included.
C1_SizesCountPages ==
  \A g \in Gens, f \in Types, z \in Zones : sizes[g][f][z] = Len(gen_lists[g][f][z])

\* C1, amended: every sizes[gen][type][zone] is the total of thp_nr_pages() over the
\* pages linked in that slot, and between operations the sum over the generations
\* is that total over the tracked pages of the type and zone.
C1_SizesMatchLists ==
  /\ \A g \in Gens, f \in Types, z \in Zones : sizes[g][f][z] = ListNr(gen_lists[g][f][z])
  /\ LockFree =>
       \A f \in Types, z \in Zones : SizesUpTo(MAX_NR_GENS - 1, f, z) = SetNr(Tracked(f, z))

\* Both pages are linked in the same slot: a base page and the compound page.
C1_Witness ==
  /\ LockFree
  /\ \E g \in Gens, f \in Types, z \in Zones : Len(gen_lists[g][f][z]) = 2

\* C2: once lru_gen_addition(p) and then lru_gen_deletion(p) have run back to back,
\* every sizes counter and every generation list is what it was before the addition,
\* and page_lru_gen(p) is -1.
C2_AddThenRemoveRestores ==
  snap.stage = "removed" =>
    /\ sizes = snap.sizes
    /\ gen_lists = snap.gen_lists
    /\ page_lru_gen(flags[snap.page]) = -1

\* The pair has run while the other page sat on a generation list.
C2_Witness ==
  /\ snap.stage = "removed"
  /\ \E g \in Gens, f \in Types, z \in Zones : Len(gen_lists[g][f][z]) = 1

\* The list entries, over every generation list and classic list, that hold page q.
GenLinks(q) ==
  UNION { { <<g, f, z, i>> : i \in { j \in 1 .. Len(gen_lists[g][f][z]) :
                                       gen_lists[g][f][z][j] = q } } :
          g \in Gens, f \in Types, z \in Zones }

ClassicLinks(q) ==
  UNION { { <<l, i>> : i \in { j \in 1 .. Len(lists[l]) : lists[l][j] = q } } : l \in Lrus }

Links(q) == Cardinality(GenLinks(q)) + Cardinality(ClassicLinks(q))

\* C3: a page is linked in at most one list, generation lists and classic lists
\* together, and between operations a page linked in a generation slot carries that
\* slot's generation, type and zone.
C3_OneListAndSlotMatches ==
  /\ \A q \in Pages : Links(q) <= 1
  /\ LockFree =>
       \A q \in Pages, g \in Gens, f \in Types, z \in Zones :
         OnGenList(q, g, f, z) =>
           /\ page_lru_gen(flags[q]) = g
           /\ page_is_file_lru(flags[q]) = f
           /\ page_zone[q] = z

\* One page is on a generation list and the other on a classic list.
C3_Witness ==
  /\ LockFree
  /\ \E q \in Pages, g \in Gens, f \in Types, z \in Zones : OnGenList(q, g, f, z)
  /\ \E q \in Pages, l \in Lrus : OnClassicList(q, l)

\* C4: the window max_seq - min_seq[type] < MAX_NR_GENS holds in every state, and no
\* step of an addition, a deletion or page_inc_usage() changes max_seq or min_seq.
C4_WindowKept ==
  /\ [](\A f \in Types : max_seq - min_seq[f] < MAX_NR_GENS)
  /\ [][max_seq' = max_seq /\ min_seq' = min_seq]_vars

\* A deletion has returned true on a page that page_inc_usage() marked after its
\* addition, while another page_inc_usage() is returning.
C4_Witness ==
  /\ lk.op = "del" /\ lk.pc = "ret" /\ lk.ret
  /\ PageWorkingset(flags["p1"])
  /\ th["t1"].pc = "inc_ret"

\* The usage counter of a flags word.
UsageField(w) == (w \div BIT(LRU_USAGE_PGOFF)) % BIT(LRU_USAGE_WIDTH)
UsageMax == BIT(LRU_USAGE_WIDTH) - 1

\* One page_inc_usage() call with nothing running beside it: the first call sets
\* PG_workingset, a later one adds one to the usage counter until it is full.
SeqIncOnce(w) ==
  IF ~PageWorkingset(w) THEN w + BIT(PG_workingset)
  ELSE IF UsageField(w) < UsageMax THEN w + BIT(LRU_USAGE_PGOFF)
  ELSE w

RECURSIVE SeqInc(_, _)
SeqInc(w, n) == IF n = 0 THEN w ELSE SeqInc(SeqIncOnce(w), n - 1)

AllIncIdle == \A t \in Threads : th[t].pc = "idle"

\* C5: with the static key on, once every racing page_inc_usage() call has returned,
\* page->flags is what the same number of calls made one after another leave.
C5_NoLostIncrement ==
  (static_key /\ AllIncIdle) =>
    \A q \in Pages : flags[q] = SeqInc(flags0[q], ninc[q])

\* One caller's cmpxchg has succeeded while the other still holds the old_flags it
\* read before, and must retry.
C5_Witness ==
  /\ static_key
  /\ th["t1"].pc = "inc_ret" /\ th["t1"].ret
  /\ th["t2"].pc = "inc_cas" /\ th["t2"].page = th["t1"].page
  /\ th["t2"].old # flags[th["t2"].page]

\* C6: after a successful lru_gen_addition() the generation in page->flags, and the
\* list the page is on, is max_seq mod MAX_NR_GENS for an active page; else
\* (min_seq[type] + 1) mod MAX_NR_GENS for a page that is anonymous and not in the swap
\* cache, or under reclaim and dirty or under writeback, or in the workingset and not
\* referenced; else min_seq[type] mod MAX_NR_GENS.
C6_Gen(w) ==
  LET type == IF PageSwapBacked(w) THEN 0 ELSE 1
  IN  IF PageActive(w) THEN max_seq % MAX_NR_GENS
      ELSE IF \/ (type = 0 /\ ~PageSwapCache(w))
              \/ (PageReclaim(w) /\ (PageDirty(w) \/ PageWriteback(w)))
              \/ (~PageReferenced(w) /\ PageWorkingset(w))
      THEN (min_seq[type] + 1) % MAX_NR_GENS
      ELSE min_seq[type] % MAX_NR_GENS

C6_GenerationChosen ==
  (lk.op = "add" /\ (lk.pc = "add_link" \/ (lk.pc = "ret" /\ lk.ret))) =>
    /\ page_lru_gen(flags[lk.page]) = C6_Gen(lk.seen)
    /\ lk.pc = "ret" =>
         OnGenList(lk.page, C6_Gen(lk.seen), page_is_file_lru(lk.seen), page_zone[lk.page])

\* An anonymous page outside the swap cache, not active, has been added to the second
\* oldest generation.
C6_Witness ==
  /\ lk.op = "add" /\ lk.pc = "ret" /\ lk.ret
  /\ PageSwapBacked(lk.seen) /\ ~PageSwapCache(lk.seen) /\ ~PageActive(lk.seen)
  /\ page_lru_gen(flags[lk.page]) = (min_seq[0] + 1) % MAX_NR_GENS

\* C7: once lru_gen_deletion() has cleared the generation of a page, PG_active is set
\* exactly when the generation it was deleted from is active, the generation field is
\* clear, and the call returns true.
C7_ActiveBitOnRemoval ==
  (lk.op = "del" /\ (lk.pc = "del_unlink" \/ (lk.pc = "ret" /\ lk.ret))) =>
    /\ PageActive(flags[lk.page]) <=> lru_gen_is_active(lk.gen)
    /\ page_lru_gen(flags[lk.page]) = -1
    /\ lk.pc = "del_unlink" =>
         OnGenList(lk.page, lk.gen, page_is_file_lru(flags[lk.page]), page_zone[lk.page])

\* A page has been deleted from an active generation and is marked active.
C7_Witness ==
  /\ lk.op = "del" /\ lk.pc = "ret" /\ lk.ret
  /\ lru_gen_is_active(lk.gen)
  /\ PageActive(flags[lk.page])

\* C8: for every generation index, lru_gen_is_active() holds exactly of
\* max_seq mod MAX_NR_GENS and (max_seq - 1) mod MAX_NR_GENS.
C8_ActiveIffYoungestTwo ==
  \A g \in Gens :
    lru_gen_is_active(g) <=> (g = max_seq % MAX_NR_GENS \/ g = (max_seq - 1) % MAX_NR_GENS)

\* A deletion has found the second youngest generation active, past a wrap of the
\* window.
C8_Witness ==
  /\ lk.op = "del" /\ lk.pc = "del_cas"
  /\ max_seq >= MAX_NR_GENS
  /\ lk.gen = (max_seq - 1) % MAX_NR_GENS
  /\ lru_gen_is_active(lk.gen)

\* A page that page_inc_usage() has not touched.
NeverAccessed(w) == ~PageWorkingset(w) /\ UsageField(w) = 0

\* C9: with the static key on, every page_inc_usage() call returns true; no bit
\* outside PG_workingset and the usage counter ever changes; and after n calls on a
\* never-accessed page PG_workingset is set from the first call on and the usage
\* counter is n - 1, or its maximum once that is reached.
C9_SaturatingUsage ==
  static_key =>
    /\ \A t \in Threads : th[t].pc = "inc_ret" => th[t].ret
    /\ \A q \in Pages :
         flags[q] - UsageField(flags[q]) * BIT(LRU_USAGE_PGOFF)
                  - (IF PageWorkingset(flags[q]) THEN BIT(PG_workingset) ELSE 0)
         = flags0[q] - UsageField(flags0[q]) * BIT(LRU_USAGE_PGOFF)
                     - (IF PageWorkingset(flags0[q]) THEN BIT(PG_workingset) ELSE 0)
    /\ \A q \in Pages :
         (NeverAccessed(flags0[q]) /\ AllIncIdle) =>
           /\ PageWorkingset(flags[q]) <=> ninc[q] >= 1
           /\ UsageField(flags[q]) = (IF ninc[q] = 0 THEN 0 ELSE min(ninc[q] - 1, UsageMax))

\* Five calls on a never-accessed page have returned and the usage counter is full.
C9_Witness ==
  /\ static_key /\ AllIncIdle
  /\ NeverAccessed(flags0["p1"])
  /\ ninc["p1"] >= 5
  /\ UsageField(flags["p1"]) = UsageMax

\* mmzone.h: the tiers of a generation; the highest tier is MAX_NR_TIERS - 1.
MAX_NR_TIERS == LRU_USAGE_WIDTH + 2

\* C10 as stated: lru_tier_from_usage(u) is floor(log2(u + 1)), clamped to the
\* highest tier.
C10_FloorLog2 ==
  tier_ret # -1 =>
    \E t \in 0 .. 8 :
      /\ BIT(t) <= usage_arg + 1 /\ usage_arg + 1 < BIT(t + 1)
      /\ tier_ret = min(t, MAX_NR_TIERS - 1)

\* C10, amended: lru_tier_from_usage(u) is log2(u + 1) rounded up, the least t with
\* 2^t >= u + 1; over what page_tier_usage() returns, 0 to 2^LRU_USAGE_WIDTH, that is
\* at most the highest tier without any clamping.
C10_CeilLog2 ==
  tier_ret # -1 =>
    /\ BIT(tier_ret) >= usage_arg + 1
    /\ tier_ret > 0 => BIT(tier_ret - 1) < usage_arg + 1
    /\ usage_arg <= BIT(LRU_USAGE_WIDTH) => tier_ret <= MAX_NR_TIERS - 1

\* The tier of usage 2 has been computed: 2, where floor(log2(3)) is 1.
C10_Witness == usage_arg = 2 /\ tier_ret = 2

(* ------------------------------------------------------------------ C11 *)

\* The classic list of a page: the unevictable list, or the list of its type, the
\* active one when PG_active is set.
C11_Classify(w) ==
  IF PageUnevictable(w) THEN LRU_UNEVICTABLE
  ELSE IF PageSwapBacked(w)
       THEN (IF PageActive(w) THEN LRU_ACTIVE_ANON ELSE LRU_INACTIVE_ANON)
       ELSE (IF PageActive(w) THEN LRU_ACTIVE_FILE ELSE LRU_INACTIVE_FILE)

\* The step that takes the addition of p: lru_gen_addition() rejected the page and
\* the caller fell back to the classic list.
C11_Rejected(p) ==
  LET w == flags[p]
      kind == C11_Classify(w)
  IN  /\ lk'.pc = "ret" /\ ~lk'.ret
      /\ flags' = flags /\ sizes' = sizes /\ gen_lists' = gen_lists
      /\ \A l \in Lrus \ {kind} : lists'[l] = lists[l]
      /\ lists'[kind] \in { list_add(p, lists[kind]), list_add_tail(p, lists[kind]) }
      /\ lru_size' = [lru_size EXCEPT ![kind][page_zone[p]] = @ + thp_nr_pages(p)]

\* C11: an addition of a page that is unevictable, or whose type is not enabled, is
\* rejected by lru_gen_addition(): it returns false and the page's flags, every sizes
\* counter and every generation list are as before; the only changes are the
\* caller's fallback, one insertion into the classic list page_lru() names and one
\* update_lru_size() of that list in the page's zone.  No other addition is rejected.
C11_RejectedFallsBack ==
  [][ \A p \in Pages :
        (lk.pc = "idle" /\ lk'.op = "add" /\ lk'.page = p) =>
          IF PageUnevictable(flags[p]) \/ ~enabled[page_is_file_lru(flags[p])]
          THEN C11_Rejected(p)
          ELSE lk'.pc = "add_read" /\ UNCHANGED <<flags, lruvars>> ]_vars

\* An active anon page of the disabled type was just put on the classic active anon
\* list, and the unevictable page sits on the unevictable list.
C11_Witness ==
  /\ lk.op = "add" /\ lk.pc = "ret" /\ ~lk.ret /\ lk.page = "p1"
  /\ ~enabled[0] /\ PageActive(flags["p1"]) /\ ~PageUnevictable(flags["p1"])
  /\ OnClassicList("p1", LRU_ACTIVE_ANON)
  /\ lru_size[LRU_ACTIVE_ANON][page_zone["p1"]] = thp_nr_pages("p1")
  /\ PageUnevictable(flags["p2"]) /\ OnClassicList("p2", LRU_UNEVICTABLE)

(* ------------------------------------------------------------------ C12 *)

\* Scenario A has run: in an lruvec that was empty, with max_seq = min_seq[file],
\* the addition at the front of the file page p1, PG_active set before the call,
\* has returned true.
C12_ScenarioADone ==
  /\ lk.op = "add" /\ lk.page = "p1" /\ lk.front /\ lk.pc = "ret" /\ lk.ret
  /\ page_is_file_lru(lk.seen) = 1 /\ PageActive(lk.seen)
  /\ min_seq[1] = max_seq
  /\ snap.stage = "added"
  /\ \A g \in Gens, f \in Types, z \in Zones :
        snap.sizes[g][f][z] = 0 /\ snap.gen_lists[g][f][z] = <<>>

\* What Scenario A promises at generation g.
C12_Outcome(g) ==
  /\ bug = {}
  /\ page_lru_gen(flags["p1"]) = g
  /\ sizes[g][1][page_zone["p1"]] = 1
  /\ lru_gen_is_active(g)

\* C12 as stated: with max_seq = min_seq[file] = 0 Scenario A completes with no
\* assertion tripped, the page in generation 0, sizes[0][file][zone] = 1 and
\* generation 0 active.
C12_ScenarioAAtZero == (C12_ScenarioADone /\ max_seq = 0) => C12_Outcome(0)

\* C12: Scenario A holds from max_seq = min_seq[file] = s for every s >= 1, at
\* generation s mod MAX_NR_GENS; at max_seq = 0 the addition trips
\* VM_BUG_ON(!max_seq) of lru_gen_is_active().
C12_ScenarioANeedsMaxSeq ==
  C12_ScenarioADone =>
    IF max_seq = 0
    THEN "is_active: !max_seq" \in bug
    ELSE C12_Outcome(max_seq % MAX_NR_GENS)

\* Scenario A from max_seq = MAX_NR_GENS, whose slot is generation 0.
C12_Witness ==
  /\ C12_ScenarioADone /\ max_seq = MAX_NR_GENS
  /\ C12_Outcome(0)

(* ------------------------------------------------------------------ C13 *)

\* The generation of w is the slot of a sequence number of its type's window.
C13_InWindow(w) ==
  \E s \in min_seq[page_is_file_lru(w)] .. max_seq :
     page_lru_gen(w) = lru_gen_from_seq(s)

\* The number of generations of the type of w, less one.
C13_Span(w) == max_seq - min_seq[page_is_file_lru(w)]

\* C13 as stated: whenever max_seq - min_seq[type] < MAX_NR_GENS, the generation of
\* every tracked page is the slot of a sequence number between min_seq[type] and
\* max_seq, also when min_seq[type] = max_seq.
C13_AlwaysInWindow ==
  \A q \in Pages :
     (page_lru_gen(flags[q]) >= 0 /\ C13_Span(flags[q]) < MAX_NR_GENS) =>
        C13_InWindow(flags[q])

\* C13: whenever 1 <= max_seq - min_seq[type] < MAX_NR_GENS, the generation of every
\* tracked page is the slot of a sequence number between min_seq[type] and max_seq;
\* with min_seq[type] = max_seq it is the slot of max_seq or of max_seq + 1.
C13_InWindowOfTwo ==
  \A q \in Pages :
     (page_lru_gen(flags[q]) >= 0 /\ C13_Span(flags[q]) < MAX_NR_GENS) =>
        IF C13_Span(flags[q]) >= 1
        THEN C13_InWindow(flags[q])
        ELSE page_lru_gen(flags[q]) \in
               { lru_gen_from_seq(max_seq), lru_gen_from_seq(max_seq + 1) }

\* An anon page outside the swap cache was added to the second oldest generation
\* of a window of two.
C13_Witness ==
  /\ lk.op = "add" /\ lk.pc = "ret" /\ lk.ret /\ lk.page = "p1"
  /\ page_is_file_lru(flags["p1"]) = 0 /\ ~PageActive(lk.seen)
  /\ C13_Span(flags["p1"]) = 1
  /\ page_lru_gen(flags["p1"]) = lru_gen_from_seq(min_seq[0] + 1)
  /\ OnGenList("p1", lru_gen_from_seq(max_seq), 0, page_zone["p1"])

(* ------------------------------------------------------------------ C14 *)

\* The VM_BUG_ONs of lru_gen_update_size().
C14_UpdateSizeBugs ==
  {"update_size: old_gen", "update_size: new_gen", "update_size: both -1",
   "update_size: active to inactive"}

\* C14: lru_gen_update_size() is only ever called as (-1, gen) by an addition and as
\* (gen, -1) by a deletion, with gen below MAX_NR_GENS: never with an active old and
\* an inactive new generation, never with both -1, never with a generation out of
\* range, so none of its assertions fires.
C14_UpdateSizeArgsValid ==
  /\ bug \cap C14_UpdateSizeBugs = {}
  /\ lk.pc \in {"add_read", "add_cas", "add_link", "del_cas", "del_unlink"} =>
        lk.gen \in Gens
  /\ (lk.pc = "ret" /\ lk.ret) => lk.gen \in Gens

\* A deletion from the highest slot, an active generation, has called
\* lru_gen_update_size(gen, -1) while the other page sits in an inactive generation
\* it was added to by lru_gen_update_size(-1, gen).
C14_Witness ==
  /\ lk.op = "del" /\ lk.pc = "ret" /\ lk.ret
  /\ lk.gen = MAX_NR_GENS - 1 /\ lru_gen_is_active(lk.gen)
  /\ \E q \in Pages \ {lk.page} :
        /\ page_lru_gen(flags[q]) >= 0
        /\ ~lru_gen_is_active(page_lru_gen(flags[q]))
        /\ sizes[page_lru_gen(flags[q])][page_is_file_lru(flags[q])][page_zone[q]] > 0
  /\ bug = {}

(* ------------------------------------------------------------------ C15 *)

\* C15: no page has a generation and PG_active at once: the cmpxchg of
\* lru_gen_addition() that stores the generation clears PG_active in the same write,
\* and neither VM_BUG_ON(PageActive(page)) of lru_gen_deletion() nor
\* VM_BUG_ON_PAGE(old_flags & LRU_GEN_MASK) of lru_gen_addition() fires.
C15_GenerationExcludesActive ==
  /\ \A q \in Pages : page_lru_gen(flags[q]) >= 0 => ~PageActive(flags[q])
  /\ "deletion: PageActive" \notin bug
  /\ "addition: page has a generation" \notin bug

\* A page that was removed from an active generation, hence with PG_active set, has
\* just been given a generation again, before it is linked.
C15_Witness ==
  /\ lk.op = "add" /\ lk.pc = "add_link"
  /\ last_del.page = lk.page /\ lru_gen_is_active(last_del.gen)
  /\ PageActive(lk.old)
  /\ page_lru_gen(flags[lk.page]) = lk.gen
  /\ ~PageActive(flags[lk.page])

(* ------------------------------------------------------------------ C16 *)

\* The cmpxchg of lru_gen_addition() succeeds in this step.
C16_AddCasSucceeds == lk.pc = "add_cas" /\ lk'.pc = "add_link"

\* C16: the cmpxchg of lru_gen_addition() that stores the generation leaves the
\* usage field and PG_workingset zero when PG_referenced was clear in the word it
\* replaced, and as they were in that word when PG_referenced was set; PG_referenced
\* itself is as before.
C16_TierBitsOnAddition ==
  [][ C16_AddCasSucceeds =>
        LET old == flags[lk.page]
            new == flags'[lk.page]
        IN  /\ old = lk.old
            /\ page_lru_gen(new) = lk.gen
            /\ PageReferenced(new) <=> PageReferenced(old)
            /\ IF PageReferenced(old)
               THEN /\ UsageField(new) = UsageField(old)
                    /\ PageWorkingset(new) <=> PageWorkingset(old)
               ELSE /\ UsageField(new) = 0
                    /\ ~PageWorkingset(new) ]_vars

\* An unreferenced page with a usage count and PG_workingset was given a generation
\* and has neither left.
C16_Witness ==
  /\ lk.op = "add" /\ lk.pc = "add_link"
  /\ ~PageReferenced(lk.old) /\ PageWorkingset(lk.old) /\ UsageField(lk.old) > 0
  /\ page_lru_gen(flags[lk.page]) = lk.gen
  /\ UsageField(flags[lk.page]) = 0 /\ ~PageWorkingset(flags[lk.page])

(* ------------------------------------------------------------------ C17 *)

\* The fields of page->flags each operation writes.
C17_AddOwned ==
  BitOr(BitOr(LRU_GEN_MASK, BIT(PG_active)), BitOr(LRU_USAGE_MASK, BIT(PG_workingset)))
C17_DelOwned == BitOr(LRU_GEN_MASK, BIT(PG_active))
C17_IncOwned == BitOr(LRU_USAGE_MASK, BIT(PG_workingset))

\* Outside mask, every page->flags is the same after the step as before it.
C17_SameOutside(mask) ==
  \A p \in Pages : BitAnd(flags'[p], BitNot(mask)) = BitAnd(flags[p], BitNot(mask))

\* C17: a step of an addition changes page->flags only in the generation, PG_active,
\* the usage and PG_workingset, a step of a deletion only in the generation and
\* PG_active, a step of page_inc_usage() only in the usage and PG_workingset; every
\* other bit is after the step what it was just before it, so what another owner of
\* the word wrote between a read and its cmpxchg is never overwritten.
C17_OnlyOwnFields ==
  [][ /\ (lk' # lk /\ (lk.op = "add" \/ lk'.op = "add")) => C17_SameOutside(C17_AddOwned)
      /\ (lk' # lk /\ (lk.op = "del" \/ lk'.op = "del")) => C17_SameOutside(C17_DelOwned)
      /\ th' # th => C17_SameOutside(C17_IncOwned) ]_vars

\* The cmpxchg of an addition failed on a word another owner had cleared
\* PG_referenced in, the cmpxchg of page_inc_usage() is about to fail likewise, and
\* the bit is still clear.
C17_Witness ==
  /\ lk.op = "add" /\ lk.pc = "add_read"
  /\ PageReferenced(lk.old) /\ ~PageReferenced(flags[lk.page])
  /\ th["t1"].pc = "inc_cas" /\ th["t1"].page = lk.page
  /\ PageReferenced(th["t1"].old)

(* ------------------------------------------------------------------ C18 *)

\* C18: with a finite number of additions, deletions and page_inc_usage() calls on
\* one page->flags and every caller inside a call running on, every call returns:
\* no cmpxchg loop is repeated for ever.
C18_EveryCallReturns ==
  /\ (lk.pc # "idle") ~> (lk.pc = "idle")
  /\ \A t \in Threads : (th[t].pc # "idle") ~> (th[t].pc = "idle")

\* The cmpxchg of the deletion and that of a page_inc_usage() call are both about to
\* fail on a word the other caller of page_inc_usage() has changed since.
C18_Witness ==
  /\ lk.op = "del" /\ lk.pc = "del_cas" /\ lk.old # flags[lk.page]
  /\ th["t1"].pc = "inc_cas" /\ th["t1"].old # flags["p1"]
  /\ th["t2"].pc = "inc_ret"

(* ------------------------------------------------------------------ C19 *)

RECURSIVE C19_GenNrUpTo(_, _, _, _)
\* The base pages linked in the generations 0..g of one type and zone that are
\* active (act) or not.
C19_GenNrUpTo(g, f, z, act) ==
  IF g < 0 THEN 0
  ELSE (IF lru_gen_is_active(g) = act THEN ListNr(gen_lists[g][f][z]) ELSE 0)
       + C19_GenNrUpTo(g - 1, f, z, act)

\* The base pages of zone z linked in the classic list l.
C19_ClassicNr(l, z) ==
  LET InZone(q) == page_zone[q] = z
  IN  ListNr(SelectSeq(lists[l], InZone))

\* C19: with max_seq as it was, for every type and zone what update_lru_size() has
\* added up for the active list kind is the total size of the pages linked in active
\* generations plus that of the pages on the classic active list, and likewise for
\* the inactive kind; no counter of update_lru_size() is negative.
C19_SinksMatch ==
  /\ \A f \in Types, z \in Zones :
        /\ lru_size[LRU_FILE * f + LRU_ACTIVE][z]
             = C19_GenNrUpTo(MAX_NR_GENS - 1, f, z, TRUE)
               + C19_ClassicNr(LRU_FILE * f + LRU_ACTIVE, z)
        /\ lru_size[LRU_FILE * f][z]
             = C19_GenNrUpTo(MAX_NR_GENS - 1, f, z, FALSE)
               + C19_ClassicNr(LRU_FILE * f, z)
  /\ \A l \in Lrus, z \in Zones : lru_size[l][z] >= 0

\* With p1 on the classic active anon list, the compound page was deleted and added
\* again and is linked in an active generation of the file type.
C19_Witness ==
  /\ lk.op = "add" /\ lk.pc = "ret" /\ lk.page = "p2" /\ last_del.page = "p2"
  /\ OnClassicList("p1", LRU_ACTIVE_ANON)
  /\ \E g \in Gens :
        /\ lru_gen_is_active(g)
        /\ OnGenList("p2", g, 1, page_zone["p2"])
  /\ lru_size[LRU_ACTIVE_FILE][page_zone["p2"]] = CompoundNr
  /\ lru_size[LRU_ACTIVE_ANON][page_zone["p1"]] = 1

(* ------------------------------------------------------------------ C20 *)

\* The page that lru_gen_deletion() took out of generation last_del.gen just before
\* has been given a generation again by lru_gen_addition().
C20_Readded ==
  /\ lk.op = "add" /\ lk.page = last_del.page
  /\ lk.pc = "add_link" \/ (lk.pc = "ret" /\ lk.ret)

\* C20: with max_seq and min_seq as they were, a tracked page that is deleted and
\* at once added again lands in the youngest generation, with PG_active clear again,
\* when the generation it left was active; when that generation was not active it
\* lands in the oldest or the second oldest generation of its type, which is an
\* active generation only where the two coincide.
C20_ReaddKeepsActivity ==
  C20_Readded =>
    LET w == flags[lk.page]
        file == page_is_file_lru(w)
        gen == page_lru_gen(w)
    IN  IF lru_gen_is_active(last_del.gen)
        THEN gen = lru_gen_from_seq(max_seq) /\ ~PageActive(w)
        ELSE /\ gen \in { lru_gen_from_seq(min_seq[file]),
                          lru_gen_from_seq(min_seq[file] + 1) }
             /\ ~PageActive(w)
             /\ max_seq - min_seq[file] >= 3 => ~lru_gen_is_active(gen)

\* A page deleted from the second youngest generation is back, in the youngest.
C20_Witness ==
  /\ C20_Readded /\ lk.pc = "ret"
  /\ last_del.gen = lru_gen_from_seq(max_seq - 1)
  /\ last_del.gen # lru_gen_from_seq(max_seq)
  /\ page_lru_gen(flags[lk.page]) = lru_gen_from_seq(max_seq)
  /\ OnGenList(lk.page, lru_gen_from_seq(max_seq), page_is_file_lru(flags[lk.page]),
               page_zone[lk.page])

====
